---- MODULE Spec2Model ----
(***************************************************************************)
(* transit_gtfs.py, dumpBusRouteLinks: for every trip, select the longest  *)
(* gap-free run of matched positions, rebuild a small graph over it, match *)
(* the trip's stops against that graph and walk the link list to emit the  *)
(* route-link rows and the stop -> point-on-link map that is returned.     *)
(*                                                                         *)
(* Index variables hold the Python (0-based) values; a Python read s[i] is *)
(* s[i + 1] here.  Distances are integers: multiples of a distance unit.   *)
(***************************************************************************)
EXTENDS Integers, Sequences, FiniteSets, TLC

VARIABLES
    pc,                 \* position in dumpBusRouteLinks
    problemReport,      \* module flag, line 38 (set by -p before the call)
    numTrips,           \* len(tripIDs), line 163
    tripID,             \* loop variable of line 165 (0 before the first trip)
    treeNodes,          \* line 172
    startIndex, curIndex, linkCount, totalLinks,                 \* lines 176-179
    longestStart, longestEnd, longestDist, longestLinkCount,     \* lines 181-184
    stopTimes,          \* line 215: stop IDs, the stop sequence number is the index
    nodeMap, linkMap,   \* vistaSubset, line 223
    vistaNodePrior,     \* line 224
    vistaNode,          \* lines 256, 260, 270: <<>> while the name is unbound
    outLinkIDList,      \* line 228
    nodeIdx, linkIdx,   \* positions of the loops of lines 238 and 245
    addLinkCalls,       \* the link IDs handed to vistaSubset.addLink, in call order
    resultTree,         \* line 296
    resultIndex, foundStopSet, outSeqCtr,                        \* lines 332-335
    linkPos,            \* position of the loop of line 336 (1-based into outLinkIDList)
    bestTreeEntry, curResultIndex, matchCtr,                     \* lines 337-342
    collected,          \* the result indices checked off at line 345 for the current link
    rows,               \* route-link rows written to outFile for the current trip
    log,                \* warnings written to stderr for the current trip
    ret,                \* line 150: the returned stop -> point-on-link map
    problemReportNodes  \* line 160

scanVars  == <<startIndex, curIndex, linkCount, totalLinks,
               longestStart, longestEnd, longestDist, longestLinkCount>>
buildVars == <<nodeMap, linkMap, vistaNodePrior, vistaNode, outLinkIDList,
               nodeIdx, linkIdx, addLinkCalls>>
walkVars  == <<resultTree, resultIndex, foundStopSet, outSeqCtr, linkPos,
               bestTreeEntry, curResultIndex, matchCtr, collected>>
vars == <<pc, problemReport, numTrips, tripID, treeNodes, scanVars, stopTimes,
          buildVars, walkVars, rows, log, ret, problemReportNodes>>

----------------------------------------------------------------------------
(* Bounds of the model. *)

MaxTrips == 2         \* trips of one run
MaxStops == 1         \* scheduled stops of a trip (run of several trips)
MaxDist == 1          \* largest distance along a link of a matched stop
SegMaxLen == 4        \* positions of a trip (segment selection)
SegMaxDist == 2       \* largest cumulative distance (segment selection)
BuildMaxRoute == 2    \* links in one position's routeInfo (subgraph building)
WalkMaxRoute == 2     \* links in one position's routeInfo (per-link walk)
WalkMaxStops == 3     \* scheduled stops of a trip (per-link walk)
WalkMaxRef == 1       \* largest reference distance (per-link walk)

(* Program constants. *)

DWELLTIME_DEFAULT == 0    \* line 35
FloatInfoMin == 0         \* line 183: sys.float_info.min, the smallest positive
                          \* normal float; a distance d of the model (an integer
                          \* number of units) has d > sys.float_info.min iff d > 0
Blank == 0                \* line 374: the empty stop field of a row
None == -1                \* line 337: bestTreeEntry is None

----------------------------------------------------------------------------
(* The base network (vistaNetwork): two links forming a cycle, so that a   *)
(* path can come back to a node and to a link.  Link 3 is an ID that a     *)
(* match tree may name but the network does not hold.                      *)

NetLinks == {1, 2}
LinkIDs == NetLinks \cup {3}
origNode(l) == IF l = 1 THEN 1 ELSE 2
destNode(l) == IF l = 1 THEN 2 ELSE 1

Max(a, b) == IF a > b THEN a ELSE b
Min(a, b) == IF a < b THEN a ELSE b
Range(s) == {s[i] : i \in DOMAIN s}
SeqsUpTo(S, n) == UNION {[1..k -> S] : k \in 0..n}
Last(s) == s[Len(s)]

(* Python's s[a:b] for integers a and b. *)
PySlice(s, a, b) ==
    LET n  == Len(s)
        lo == IF a < 0 THEN Max(a + n, 0) ELSE Min(a, n)
        hi == IF b < 0 THEN Max(b + n, 0) ELSE Min(b, n)
    IN  IF lo >= hi THEN <<>> ELSE SubSeq(s, lo + 1, hi)

----------------------------------------------------------------------------
(* State after the set-up of lines 146-164. *)

InitFor(n, flags) ==
    /\ pc = "trip"
    /\ problemReport \in flags
    /\ numTrips = n
    /\ tripID = 0
    /\ treeNodes = <<>>
    /\ startIndex = -1 /\ curIndex = 0 /\ linkCount = 0 /\ totalLinks = 0
    /\ longestStart = -1 /\ longestEnd = 0
    /\ longestDist = FloatInfoMin /\ longestLinkCount = 0
    /\ stopTimes = <<>>
    /\ nodeMap = {} /\ linkMap = {}
    /\ vistaNodePrior = <<>> /\ vistaNode = <<>>
    /\ outLinkIDList = <<>>
    /\ nodeIdx = 0 /\ linkIdx = 0
    /\ addLinkCalls = <<>>
    /\ resultTree = <<>>
    /\ resultIndex = 0 /\ foundStopSet = {} /\ outSeqCtr = 0
    /\ linkPos = 0
    /\ bestTreeEntry = None /\ curResultIndex = 0 /\ matchCtr = 0
    /\ collected = {}
    /\ rows = <<>>
    /\ log = {}
    /\ ret = <<>>
    /\ problemReportNodes = {}

(* Several trips, with or without -p. *)
Init == InitFor(MaxTrips, BOOLEAN)
(* One trip, without -p. *)
InitOne == InitFor(1, {FALSE})

----------------------------------------------------------------------------
(* Lines 165-184: the next trip and the set-up of the scan.  The trip's    *)
(* matched-position list, gtfsNodes[shapeID], is one of inputs.  The       *)
(* locals of the previous iteration are dead here (each is assigned before *)
(* it is read again) and go back to their initial values; vistaNode is the *)
(* exception: line 273 can read it without an assignment in this           *)
(* iteration.                                                              *)

NextTrip(inputs) ==
    /\ pc = "trip"
    /\ tripID < numTrips
    /\ tripID' = tripID + 1
    /\ \E t \in inputs :
          /\ treeNodes' = t
          /\ longestEnd' = Len(t)
    /\ startIndex' = -1 /\ curIndex' = 0 /\ linkCount' = 0 /\ totalLinks' = 0
    /\ longestStart' = -1
    /\ longestDist' = FloatInfoMin /\ longestLinkCount' = 0
    /\ stopTimes' = <<>>
    /\ nodeMap' = {} /\ linkMap' = {}
    /\ vistaNodePrior' = <<>>
    /\ outLinkIDList' = <<>>
    /\ nodeIdx' = 0 /\ linkIdx' = 0
    /\ addLinkCalls' = <<>>
    /\ resultTree' = <<>>
    /\ resultIndex' = 0 /\ foundStopSet' = {} /\ outSeqCtr' = 0
    /\ linkPos' = 0
    /\ bestTreeEntry' = None /\ curResultIndex' = 0 /\ matchCtr' = 0
    /\ collected' = {}
    /\ rows' = <<>>
    /\ log' = {}
    /\ pc' = "scan"
    /\ UNCHANGED <<problemReport, numTrips, vistaNode, ret, problemReportNodes>>

(* Lines 166-168: the trip's shape is not in gtfsNodes. *)
SkipShape ==
    /\ pc = "trip"
    /\ tripID < numTrips
    /\ tripID' = tripID + 1
    /\ UNCHANGED <<pc, problemReport, numTrips, treeNodes, scanVars, stopTimes,
                   buildVars, walkVars, rows, log, ret, problemReportNodes>>

----------------------------------------------------------------------------
(* Step 1, lines 186-204: the longest contiguous interval. *)

(* Line 187: the position at curIndex starts a new interval. *)
IsBoundary(nodes, i) ==
    (i = Len(nodes)) \/ (i = 0) \/ nodes[i + 1].restart

(* Line 192: treeNodes[curIndex - 1].totalDist - treeNodes[startIndex].totalDist *)
RunSpan(nodes, s, c) == nodes[c].totalDist - nodes[s + 1].totalDist

RunWinsTie(span, best) == span >= best
RunWinsShorter(span, best) == span < best
(* Line 192: the interval wins over the longest one so far. *)
RunWins(span, best) == span > best

ScanStep ==
    /\ pc = "scan"
    /\ curIndex <= Len(treeNodes)
    /\ IF IsBoundary(treeNodes, curIndex)
       THEN LET wins == /\ curIndex > startIndex
                        /\ startIndex >= 0
                        /\ RunWins(RunSpan(treeNodes, startIndex, curIndex), longestDist)
            IN  /\ totalLinks' = totalLinks + 1
                /\ longestStart' = IF wins THEN startIndex ELSE longestStart
                /\ longestEnd' = IF wins THEN curIndex ELSE longestEnd
                /\ longestDist' = IF wins THEN RunSpan(treeNodes, startIndex, curIndex)
                                          ELSE longestDist
                /\ longestLinkCount' = IF wins THEN linkCount + 1 ELSE longestLinkCount
                /\ linkCount' = IF wins THEN 0 ELSE linkCount + 1
                /\ startIndex' = curIndex
       ELSE /\ totalLinks' = totalLinks + Len(treeNodes[curIndex + 1].routeInfo)
            /\ linkCount' = linkCount + Len(treeNodes[curIndex + 1].routeInfo)
            /\ UNCHANGED <<startIndex, longestStart, longestEnd, longestDist,
                           longestLinkCount>>
    /\ curIndex' = curIndex + 1
    /\ UNCHANGED <<pc, problemReport, numTrips, tripID, treeNodes, stopTimes,
                   buildVars, walkVars, rows, log, ret, problemReportNodes>>

(* The while loop of line 186 has ended. *)
ScanOver == pc = "scan" /\ curIndex > Len(treeNodes)

HasValidPathOffByOne(ls) == ls >= -1
(* Line 206 *)
HasValidPath(ls) == ls >= 0

(* Lines 397-398: no links for the trip. *)
TripSkipped ==
    /\ ScanOver
    /\ ~HasValidPath(longestStart)
    /\ log' = log \cup {<<"nolinks", tripID, 0, 0>>}
    /\ pc' = "trip"
    /\ UNCHANGED <<problemReport, numTrips, tripID, treeNodes, scanVars, stopTimes,
                   buildVars, walkVars, rows, ret, problemReportNodes>>

----------------------------------------------------------------------------
(* Step 2, lines 206-273: the small network over the selected interval. *)

(* Line 219 *)
OurGTFSNodes == PySlice(treeNodes, longestStart, longestEnd)

(* An ephemeral node (graph.GraphNode) of the current trip's vistaSubset:  *)
(* the original node ID and the graph it was created for.                  *)
GraphNode(id) == [id |-> id, graph |-> tripID]

(* graph.GraphLink(id, origNode, destNode) of lines 264 and 273 *)
GraphLink(id, from, to) == [id |-> id, origNode |-> from, destNode |-> to]

LinkAbsentAlways(id, lm) == TRUE
(* Lines 263 and 272: outLinkIDList[-1] not in vistaSubset.linkMap *)
LinkAbsent(id, lm) == \A l \in lm : l.id # id

(* vistaSubset.addLink(link): the link is registered under its ID. *)
AddLink(lm, link) == lm \cup {link}

(* Lines 208-235: the path is valid; gtfsStopTimes[trip] is one of stops. *)
TripValid(stops) ==
    /\ ScanOver
    /\ HasValidPath(longestStart)
    /\ log' = IF (longestStart > 0) \/ (longestEnd < Len(treeNodes))
              THEN log \cup {<<"trimmed", longestStart, longestLinkCount, totalLinks>>}
              ELSE log
    /\ stopTimes' \in stops
    /\ IF OurGTFSNodes = <<>>
       THEN \* ourGTFSNodes[0] raises IndexError
            /\ pc' = "error"
            /\ UNCHANGED buildVars
       ELSE LET first == OurGTFSNodes[1].link IN
            /\ nodeMap' = {origNode(first)}
            /\ linkMap' = {}
            /\ vistaNodePrior' = <<GraphNode(origNode(first))>>
            /\ outLinkIDList' = <<first>>
            /\ nodeIdx' = 1
            /\ linkIdx' = 0
            /\ addLinkCalls' = <<>>
            /\ pc' = "build"
            /\ UNCHANGED vistaNode
    /\ UNCHANGED <<problemReport, numTrips, tripID, treeNodes, scanVars, walkVars,
                   rows, ret, problemReportNodes>>

(* Lines 242-243: no new link was assigned by this position. *)
SkipNode(node, out, firstLink) ==
    (Len(node.routeInfo) < 1) \/ ((Len(out) = 1) /\ (node.routeInfo[1] = firstLink))

(* Lines 238-244: the next position of the interval. *)
BuildNode ==
    /\ pc = "build"
    /\ linkIdx = 0
    /\ nodeIdx <= Len(OurGTFSNodes)
    /\ IF SkipNode(OurGTFSNodes[nodeIdx], outLinkIDList, OurGTFSNodes[1].link)
       THEN nodeIdx' = nodeIdx + 1 /\ linkIdx' = 0
       ELSE nodeIdx' = nodeIdx /\ linkIdx' = 1
    /\ UNCHANGED <<pc, problemReport, numTrips, tripID, treeNodes, scanVars, stopTimes,
                   nodeMap, linkMap, vistaNodePrior, vistaNode, outLinkIDList,
                   addLinkCalls, walkVars, rows, log, ret, problemReportNodes>>

(* Lines 245-266: the next link of the position's routeInfo. *)
BuildLink ==
    /\ pc = "build"
    /\ linkIdx >= 1
    /\ LET route == OurGTFSNodes[nodeIdx].routeInfo
           link  == route[linkIdx]
           node  == GraphNode(origNode(link))
           add   == LinkAbsent(Last(outLinkIDList), linkMap)
       IN  /\ IF link \notin NetLinks
              THEN /\ log' = log \cup {<<"nolink", link, 0, 0>>}
                   /\ UNCHANGED <<nodeMap, linkMap, vistaNodePrior, vistaNode,
                                  outLinkIDList, addLinkCalls>>
              ELSE /\ nodeMap' = nodeMap \cup {origNode(link)}
                   /\ vistaNode' = <<node>>
                   /\ linkMap' = IF add
                                 THEN AddLink(linkMap, GraphLink(Last(outLinkIDList),
                                                                 vistaNodePrior[1], node))
                                 ELSE linkMap
                   /\ addLinkCalls' = IF add THEN Append(addLinkCalls, Last(outLinkIDList))
                                             ELSE addLinkCalls
                   /\ vistaNodePrior' = <<node>>
                   /\ outLinkIDList' = Append(outLinkIDList, link)
                   /\ UNCHANGED log
           /\ IF linkIdx = Len(route)
              THEN nodeIdx' = nodeIdx + 1 /\ linkIdx' = 0
              ELSE nodeIdx' = nodeIdx /\ linkIdx' = linkIdx + 1
    /\ UNCHANGED <<pc, problemReport, numTrips, tripID, treeNodes, scanVars, stopTimes,
                   walkVars, rows, ret, problemReportNodes>>

(* Lines 268-273: finish off the graph with the last link.  ourGTFSNode is *)
(* the last position of the interval.  vistaNode is assigned only when the *)
(* destination node is new; the GraphLink of line 273 reads it, and raises *)
(* NameError when it was never bound.                                      *)
BuildFinish ==
    /\ pc = "build"
    /\ linkIdx = 0
    /\ nodeIdx > Len(OurGTFSNodes)
    /\ LET dest  == destNode(Last(OurGTFSNodes).link)
           fresh == dest \notin nodeMap
           node  == IF fresh THEN <<GraphNode(dest)>> ELSE vistaNode
           add   == LinkAbsent(Last(outLinkIDList), linkMap)
       IN  /\ nodeMap' = nodeMap \cup {dest}
           /\ vistaNode' = node
           /\ IF add /\ node = <<>>
              THEN /\ pc' = "error"
                   /\ UNCHANGED <<linkMap, addLinkCalls>>
              ELSE /\ linkMap' = IF add
                                 THEN AddLink(linkMap, GraphLink(Last(outLinkIDList),
                                                                 vistaNodePrior[1], node[1]))
                                 ELSE linkMap
                   /\ addLinkCalls' = IF add THEN Append(addLinkCalls, Last(outLinkIDList))
                                             ELSE addLinkCalls
                   /\ pc' = "search"
    /\ UNCHANGED <<problemReport, numTrips, tripID, treeNodes, scanVars, stopTimes,
                   vistaNodePrior, outLinkIDList, nodeIdx, linkIdx, walkVars,
                   rows, log, ret, problemReportNodes>>

----------------------------------------------------------------------------
(* Lines 275-335: the stops are matched to the small network.  What        *)
(* pathEngine.constructPath returns, once its two dummy ends are stripped, *)
(* is one entry per scheduled stop, in schedule order, each with the       *)
(* stop's sequence number (shapeEntry.shapeSeq) and a point on a link of   *)
(* vistaSubset, one of points.                                             *)

SubsetLinkIDs == {l.id : l \in linkMap}

PointsOnLink(links, dists, refDists) ==
    [link : links, dist : dists, refDist : refDists]

ResultTrees(st, points) ==
    {[i \in 1..Len(st) |-> [shapeSeq |-> i, pointOnLink |-> f[i]]] :
        f \in [1..Len(st) -> points]}

(* The trip's shape ID, gtfsTrips[tripID].shapeEntries[0].shapeID: every   *)
(* trip has a shape of its own.                                            *)
ShapeID == tripID

WalkStartSeqZero(ls) == 0
(* Line 335: outSeqCtr = longestStart *)
WalkStartSeq(ls) == ls

Search(points) ==
    /\ pc = "search"
    /\ resultTree' \in ResultTrees(stopTimes, points)
    /\ problemReportNodes' =
           IF problemReport
           THEN {e \in problemReportNodes : e[1] # ShapeID}
                    \cup {<<ShapeID, resultTree'[i].shapeSeq, FALSE>> :
                             i \in DOMAIN resultTree'}
           ELSE problemReportNodes
    /\ resultIndex' = 0
    /\ foundStopSet' = {}
    /\ outSeqCtr' = WalkStartSeq(longestStart)
    /\ linkPos' = 1
    /\ pc' = "link"
    /\ UNCHANGED <<problemReport, numTrips, tripID, treeNodes, scanVars, stopTimes,
                   buildVars, bestTreeEntry, curResultIndex, matchCtr, collected,
                   rows, log, ret>>

----------------------------------------------------------------------------
(* Lines 336-375: walk through the output link list. *)

LinkOf(i) == resultTree[i + 1].pointOnLink.link
RefDistOf(i) == resultTree[i + 1].pointOnLink.refDist
(* gtfsStopsLookup[resultTree[i].shapeEntry.shapeSeq].stop.stopID *)
StopIDOf(i) == stopTimes[resultTree[i + 1].shapeSeq]

(* Lines 337-342 *)
WalkLink ==
    /\ pc = "link"
    /\ linkPos <= Len(outLinkIDList)
    /\ bestTreeEntry' = None
    /\ curResultIndex' = resultIndex
    /\ matchCtr' = 0
    /\ collected' = {}
    /\ pc' = "while"
    /\ UNCHANGED <<problemReport, numTrips, tripID, treeNodes, scanVars, stopTimes,
                   buildVars, resultTree, resultIndex, foundStopSet, outSeqCtr, linkPos,
                   rows, log, ret, problemReportNodes>>

(* Lines 346-347 read resultTree[resultIndex], the entry at the cursor,    *)
(* where the entry being checked off is resultTree[curResultIndex].        *)
CandidateIndex(ri, cur) == ri

CursorStays(cur) == cur
(* Line 349: resultIndex = curResultIndex + 1 *)
CursorAfter(cur) == cur + 1

(* Line 346: the candidate replaces the best entry so far. *)
BetterEntry(best, cand) ==
    (best = None) \/ (RefDistOf(cand) < RefDistOf(best))

(* Line 351: go on with the loop. *)
ScanContinues(ctr, cur, ri, linkID) ==
    (ctr = 0) \/ ((cur < Len(resultTree)) /\ (LinkOf(ri) = linkID))

(* Lines 343-354: one iteration of the while loop. *)
WalkScan ==
    /\ pc = "while"
    /\ curResultIndex < Len(resultTree)
    /\ LET linkID == outLinkIDList[linkPos]
           hit    == LinkOf(curResultIndex) = linkID
           cand   == CandidateIndex(resultIndex, curResultIndex)
           ctr    == IF hit THEN matchCtr + 1 ELSE matchCtr
           ri     == IF hit THEN CursorAfter(curResultIndex) ELSE resultIndex
           cur    == curResultIndex + 1
       IN  /\ foundStopSet' = IF hit
                              THEN foundStopSet \cup {resultTree[curResultIndex + 1].shapeSeq}
                              ELSE foundStopSet
           /\ collected' = IF hit THEN collected \cup {curResultIndex} ELSE collected
           /\ bestTreeEntry' = IF hit /\ BetterEntry(bestTreeEntry, cand)
                               THEN cand ELSE bestTreeEntry
           /\ matchCtr' = ctr
           /\ resultIndex' = ri
           /\ curResultIndex' = cur
           /\ pc' = IF ScanContinues(ctr, cur, ri, linkID) THEN "while" ELSE "emit"
    /\ UNCHANGED <<problemReport, numTrips, tripID, treeNodes, scanVars, stopTimes,
                   buildVars, resultTree, outSeqCtr, linkPos,
                   rows, log, ret, problemReportNodes>>

(* Line 343: the loop condition fails. *)
WalkScanEnd ==
    /\ pc = "while"
    /\ curResultIndex >= Len(resultTree)
    /\ pc' = "emit"
    /\ UNCHANGED <<problemReport, numTrips, tripID, treeNodes, scanVars, stopTimes,
                   buildVars, walkVars, rows, log, ret, problemReportNodes>>

ConflictNever(m, stop, link) == FALSE
(* Lines 364-366: the stop is in ret with another link. *)
Conflict(m, stop, link) == (stop \in DOMAIN m) /\ (m[stop].link # link)

(* Line 371: ret[stopID] = pointOnLink *)
Assign(m, stop, point) ==
    [s \in DOMAIN m \cup {stop} |-> IF s = stop THEN point ELSE m[s]]

(* Lines 355-375: the row of the link and the merge into ret. *)
WalkEmit ==
    /\ pc = "emit"
    /\ LET linkID == outLinkIDList[linkPos] IN
       IF matchCtr > 0
       THEN LET stop  == StopIDOf(bestTreeEntry)
                point == resultTree[bestTreeEntry + 1].pointOnLink
                clash == Conflict(ret, stop, point.link)
            IN  /\ rows' = Append(rows, [route |-> tripID, sequence |-> outSeqCtr,
                                         link |-> linkID, stop |-> stop,
                                         dwelltime |-> DWELLTIME_DEFAULT])
                /\ log' = log
                     \cup (IF matchCtr > 1
                           THEN {<<"duplicates", matchCtr, linkID, stop>>} ELSE {})
                     \cup (IF clash
                           THEN {<<"conflict", stop, point.link, ret[stop].link>>} ELSE {})
                /\ ret' = IF clash THEN ret ELSE Assign(ret, stop, point)
       ELSE /\ rows' = Append(rows, [route |-> tripID, sequence |-> outSeqCtr,
                                     link |-> linkID, stop |-> Blank,
                                     dwelltime |-> Blank])
            /\ UNCHANGED <<log, ret>>
    /\ outSeqCtr' = outSeqCtr + 1
    /\ linkPos' = linkPos + 1
    /\ pc' = "link"
    /\ UNCHANGED <<problemReport, numTrips, tripID, treeNodes, scanVars, stopTimes,
                   buildVars, resultTree, resultIndex, foundStopSet,
                   bestTreeEntry, curResultIndex, matchCtr, collected,
                   problemReportNodes>>

(* Lines 377-396: the stops left over. *)
Report ==
    /\ pc = "link"
    /\ linkPos > Len(outLinkIDList)
    /\ LET left == {q \in DOMAIN stopTimes : q \notin foundStopSet} IN
       /\ log' = log \cup {<<"unmatched", tripID, stopTimes[q], q>> : q \in left}
       /\ problemReportNodes' =
              IF problemReport
              THEN problemReportNodes \cup
                   {<<ShapeID, q, TRUE>> : q \in
                       {x \in left : \A e \in problemReportNodes :
                                        ~(e[1] = ShapeID /\ e[2] = x)}}
              ELSE problemReportNodes
    /\ pc' = "trip"
    /\ UNCHANGED <<problemReport, numTrips, tripID, treeNodes, scanVars, stopTimes,
                   buildVars, walkVars, rows, ret>>

(* Lines 400-413: all trips are done, ret is returned. *)
Return ==
    /\ pc = "trip"
    /\ tripID = numTrips
    /\ pc' = "done"
    /\ UNCHANGED <<problemReport, numTrips, tripID, treeNodes, scanVars, stopTimes,
                   buildVars, walkVars, rows, log, ret, problemReportNodes>>

----------------------------------------------------------------------------
(* The inputs: matched-position lists (gtfsNodes), stop lists              *)
(* (gtfsStopTimes) and search results.                                     *)

Positions(restarts, dists, links, routes) ==
    [restart : restarts, totalDist : dists, link : links, routeInfo : routes]

(* A position that is a run of its own: no distance is covered. *)
Isolated == [restart |-> TRUE, totalDist |-> 0, link |-> 1, routeInfo |-> <<>>]

(* A run of two positions, the second reached over the links of its        *)
(* routeInfo and lying on the last of them, alone or after an isolated     *)
(* position.                                                               *)
EndLink(l, route) ==
    IF route = <<>> \/ Last(route) \notin NetLinks THEN l ELSE Last(route)

Paths(routes) ==
    {prefix \o <<a, [restart |-> FALSE, totalDist |-> 1,
                     link |-> EndLink(a.link, rt), routeInfo |-> rt]>> :
        prefix \in {<<>>, <<Isolated>>},
        a \in Positions({TRUE}, {0}, NetLinks, {<<>>}),
        rt \in routes}

(* Several trips: a path whose second position is reached over no link or *)
(* over one link, or a list with no usable run; the stops of a trip are    *)
(* among two stops that the trips share.                                   *)
TripInputs ==
    Paths({<<>>} \cup {<<l>> : l \in LinkIDs})
        \cup {<<>>, <<Isolated>>, <<Isolated, Isolated>>}
StopIDs == {1, 2}
TripStops == SeqsUpTo(StopIDs, MaxStops)
TripPoints == PointsOnLink(SubsetLinkIDs, 0..MaxDist, {0})

(* Segment selection: any restart flags and cumulative distances. *)
SegInputs ==
    SeqsUpTo(Positions(BOOLEAN, 0..SegMaxDist, {1}, {<<>>}), SegMaxLen)

(* Subgraph building: a run of two positions on any links with any routeInfo. *)
BuildInputs ==
    {<<a, b>> :
        a \in Positions({FALSE}, {0}, NetLinks, SeqsUpTo(LinkIDs, BuildMaxRoute)),
        b \in Positions({FALSE}, {1}, NetLinks, SeqsUpTo(LinkIDs, BuildMaxRoute))}

(* Per-link walk: any output link list, stops with IDs of their own, any   *)
(* matched link and reference distance.                                    *)
WalkInputs == Paths(SeqsUpTo(NetLinks, WalkMaxRoute))
WalkStops == {[i \in 1..k |-> i] : k \in 0..WalkMaxStops}
WalkPoints == PointsOnLink(SubsetLinkIDs, {0}, 0..WalkMaxRef)

----------------------------------------------------------------------------
(* The whole function, over several trips. *)
Next ==
    \/ NextTrip(TripInputs)
    \/ SkipShape
    \/ ScanStep
    \/ TripSkipped
    \/ TripValid(TripStops)
    \/ BuildNode
    \/ BuildLink
    \/ BuildFinish
    \/ Search(TripPoints)
    \/ WalkLink
    \/ WalkScan
    \/ WalkScanEnd
    \/ WalkEmit
    \/ Report
    \/ Return

Spec == Init /\ [][Next]_vars

(* Segment selection of one trip. *)
NextSeg ==
    \/ NextTrip(SegInputs)
    \/ ScanStep

SpecSeg == InitOne /\ [][NextSeg]_vars

(* Segment selection and subgraph building of one trip. *)
NextBuild ==
    \/ NextTrip(BuildInputs)
    \/ ScanStep
    \/ TripValid({<<>>})
    \/ BuildNode
    \/ BuildLink
    \/ BuildFinish

SpecBuild == InitOne /\ [][NextBuild]_vars

(* One trip, up to the end of the per-link walk. *)
NextWalk ==
    \/ NextTrip(WalkInputs)
    \/ ScanStep
    \/ TripValid(WalkStops)
    \/ BuildNode
    \/ BuildLink
    \/ BuildFinish
    \/ Search(WalkPoints)
    \/ WalkLink
    \/ WalkScan
    \/ WalkScanEnd
    \/ WalkEmit
    \/ Report
    \/ Return

SpecWalk == InitOne /\ [][NextWalk]_vars

----------------------------------------------------------------------------
(* Definitions the properties are stated with. *)

(* The representative of the current link, its stop and its point, once    *)
(* the while loop has ended with a match.                                  *)
Merging == pc = "emit" /\ matchCtr > 0
BestStop == StopIDOf(bestTreeEntry)
BestPoint == resultTree[bestTreeEntry + 1].pointOnLink

(* The gap-free runs [a, b) of a position list: a is the first position or *)
(* a restart, b is the end or the next restart.                            *)
GapFreeRuns(nodes) ==
    {run \in (0..Len(nodes)) \X (0..Len(nodes)) :
        /\ run[1] < run[2]
        /\ (run[1] = 0) \/ nodes[run[1] + 1].restart
        /\ (run[2] = Len(nodes)) \/ nodes[run[2] + 1].restart
        /\ \A k \in (run[1] + 1)..(run[2] - 1) : ~nodes[k + 1].restart}

SpanOf(nodes, run) == nodes[run[2]].totalDist - nodes[run[1] + 1].totalDist

(* The earliest of the runs of greatest span. *)
IsEarliestLongest(nodes, run) ==
    /\ run \in GapFreeRuns(nodes)
    /\ \A other \in GapFreeRuns(nodes) :
          \/ SpanOf(nodes, other) < SpanOf(nodes, run)
          \/ (SpanOf(nodes, other) = SpanOf(nodes, run) /\ run[1] <= other[1])

NoInteriorBoundary(nodes) == \A k \in 2..Len(nodes) : ~nodes[k].restart

(* The last trip that reached line 176 went through the whole walk. *)
TripProcessed == pc = "trip" /\ tripID > 0 /\ longestStart >= 0

----------------------------------------------------------------------------
\* C1: once a stop ID is in the Assignment Map (ret), no step changes the link
\* it maps to; merging a representative whose stop is already mapped to another
\* link logs a conflict warning and leaves the map as it is.
C1_AssignmentMonotonic ==
    [][/\ \A s \in DOMAIN ret : s \in DOMAIN ret' /\ ret'[s].link = ret[s].link
       /\ (Merging /\ BestStop \in DOMAIN ret /\ ret[BestStop].link # BestPoint.link)
             => /\ ret' = ret
                /\ <<"conflict", BestStop, BestPoint.link, ret[BestStop].link>> \in log'
      ]_vars

\* C1 witness: a conflict was logged for a stop and the map still holds the
\* link the stop had before.
C1_Witness ==
    \E w \in log : /\ w[1] = "conflict"
                   /\ w[2] \in DOMAIN ret
                   /\ ret[w[2]].link = w[4]
                   /\ w[3] # w[4]

\* C2 (as claimed): among the rows of one trip, a link ID has at most one row
\* that carries a stop.
C2_OneStopPerLink ==
    \A i, j \in DOMAIN rows :
        (i # j /\ rows[i].link = rows[j].link)
            => (rows[i].stop = Blank \/ rows[j].stop = Blank)

\* C3 (as claimed): when several entries were collected for a link, the row
\* emitted for it carries the stop of a collected entry of least refDist, the
\* first such entry of the result sequence.
C3_MinRefDistEmitted ==
    (pc = "link" /\ linkPos > 1 /\ matchCtr > 1)
        => \E c \in collected :
              /\ Last(rows).stop = StopIDOf(c)
              /\ \A d \in collected :
                    \/ RefDistOf(c) < RefDistOf(d)
                    \/ (RefDistOf(c) = RefDistOf(d) /\ c <= d)

\* C4 (as claimed): for any position list the scan returns the earliest of the
\* gap-free runs of greatest span.
C4_Original ==
    (ScanOver /\ GapFreeRuns(treeNodes) # {})
        => IsEarliestLongest(treeNodes, <<longestStart, longestEnd>>)

\* C4 (amended): when some gap-free run has a positive span, the scan returns
\* the earliest of the runs of greatest span; when none has, it returns no
\* interval (longestStart stays -1).
C4_LongestRun ==
    ScanOver =>
        IF \E run \in GapFreeRuns(treeNodes) : SpanOf(treeNodes, run) > 0
        THEN IsEarliestLongest(treeNodes, <<longestStart, longestEnd>>)
        ELSE longestStart = -1

\* C4 witness: two runs tie on the greatest span and the earlier one is returned.
C4_Witness ==
    /\ ScanOver
    /\ \E r1, r2 \in GapFreeRuns(treeNodes) :
          /\ r1[1] < r2[1]
          /\ SpanOf(treeNodes, r1) = SpanOf(treeNodes, r2)
          /\ SpanOf(treeNodes, r1) > 0
          /\ IsEarliestLongest(treeNodes, r1)
          /\ <<longestStart, longestEnd>> = r1

\* C5 (as claimed): a non-empty list with no interior boundary is returned
\* whole, whatever its span.
C5_Original ==
    (ScanOver /\ Len(treeNodes) >= 1 /\ NoInteriorBoundary(treeNodes))
        => (longestStart = 0 /\ longestEnd = Len(treeNodes))

\* C5 (amended): a list with no interior boundary is returned whole when its
\* span is positive, and yields no interval otherwise.
C5_WholeSequence ==
    (ScanOver /\ Len(treeNodes) >= 1 /\ NoInteriorBoundary(treeNodes))
        => IF SpanOf(treeNodes, <<0, Len(treeNodes)>>) > 0
           THEN longestStart = 0 /\ longestEnd = Len(treeNodes)
           ELSE longestStart = -1

\* C5 witness: a list of three or more positions with no interior boundary and
\* a positive span was returned whole.
C5_Witness ==
    /\ ScanOver
    /\ Len(treeNodes) >= 3
    /\ NoInteriorBoundary(treeNodes)
    /\ SpanOf(treeNodes, <<0, Len(treeNodes)>>) > 0
    /\ longestStart = 0 /\ longestEnd = Len(treeNodes)

\* C6: no link ID is handed to addLink twice while one subgraph is built.
C6_AddLinkOncePerID ==
    \A i, j \in DOMAIN addLinkCalls :
        i # j => addLinkCalls[i] # addLinkCalls[j]

\* C6 witness: the subgraph of a path that traverses a link twice is complete,
\* every link ID of the output list was added.
C6_Witness ==
    /\ pc = "search"
    /\ \E i, j \in DOMAIN outLinkIDList : i < j /\ outLinkIDList[i] = outLinkIDList[j]
    /\ Range(addLinkCalls) = Range(outLinkIDList)
    /\ Len(addLinkCalls) >= 2

\* C7: the rows of a trip are one per entry of the output link list, in its
\* order, numbered longestStart, longestStart + 1, ... whether they carry a stop
\* or not: while the walk runs the rows written so far are that prefix, and a
\* processed trip has a row for every entry.
C7_RowsNumberedFromStart ==
    /\ (pc \in {"link", "while", "emit"}) => Len(rows) = linkPos - 1
    /\ TripProcessed => Len(rows) = Len(outLinkIDList)
    /\ (pc \in {"link", "while", "emit"} \/ TripProcessed)
          => \A i \in DOMAIN rows :
                /\ rows[i].route = tripID
                /\ rows[i].sequence = longestStart + (i - 1)
                /\ rows[i].link = outLinkIDList[i]

\* C7 witness: a processed trip whose run starts after the first position, with
\* a row that carries a stop and a row that carries none.
C7_Witness ==
    /\ TripProcessed
    /\ longestStart > 0
    /\ \E i, j \in DOMAIN rows : rows[i].stop # Blank /\ rows[j].stop = Blank

\* C8: a trip for which the scan found no usable run is skipped: nothing is
\* written to the rows, ret and problemReportNodes while it is scanned, and
\* the step that follows the scan logs the warning, writes no row, leaves ret
\* and problemReportNodes as they are and goes back to the loop over the trips
\* with the same trip counter, so the trips that remain are still taken.
C8_NoRunSkipsTrip ==
    [][/\ (pc = "scan")
             => (rows' = <<>> /\ ret' = ret /\ problemReportNodes' = problemReportNodes)
       /\ (ScanOver /\ longestStart < 0)
             => /\ pc' = "trip"
                /\ tripID' = tripID /\ numTrips' = numTrips
                /\ <<"nolinks", tripID, 0, 0>> \in log'
      ]_vars

\* C8 witness: the second trip was skipped after the first one had assigned a
\* stop; no row was written and the warning is in the log.
C8_Witness ==
    /\ pc = "trip"
    /\ tripID = 2
    /\ <<"nolinks", 2, 0, 0>> \in log
    /\ rows = <<>>
    /\ DOMAIN ret # {}

\* C9 (as claimed): merging a representative whose stop is already in ret with
\* the same link leaves ret as it is.
C9_SameLinkKeepsFirstPoint ==
    [][(Merging /\ BestStop \in DOMAIN ret /\ ret[BestStop].link = BestPoint.link)
          => ret' = ret]_vars

\* C10 (as claimed): when the entry at the cursor is matched to another link
\* than the current one (the scan has moved past the cursor with nothing
\* collected), no later entry is collected for the link and the cursor stays
\* where it was; a link with nothing collected gets a row with no stop.
C10_NoScanPastMismatch ==
    [][/\ (pc = "while" /\ matchCtr = 0 /\ curResultIndex > resultIndex)
             => (matchCtr' = 0 /\ collected' = {} /\ resultIndex' = resultIndex)
       /\ (pc = "emit" /\ matchCtr = 0)
             => (Len(rows') = Len(rows) + 1 /\ Last(rows').stop = Blank
                    /\ resultIndex' = resultIndex)
      ]_vars

(* The step of lines 268-273 is next and it will hand the last link of the *)
(* output list to addLink.                                                 *)
Closing ==
    /\ pc = "build" /\ linkIdx = 0 /\ nodeIdx > Len(OurGTFSNodes)
    /\ LinkAbsent(Last(outLinkIDList), linkMap)

\* C11 (as claimed): the closing step adds the last link of the output list so
\* that it ends at the node of the final position's link's destination, also
\* when a node with that identifier is already in the subgraph.
C11_ClosingLinkEndsAtDestination ==
    [][Closing
          => \E l \in linkMap' :
                /\ l.id = Last(outLinkIDList)
                /\ l.destNode.id = destNode(Last(OurGTFSNodes).link)
      ]_vars

(* The rows of the trip that carry the stop of result entry e (0-based). *)
RowsOfEntry(e) == {i \in DOMAIN rows : rows[i].stop = StopIDOf(e)}

\* C12 (as claimed): for a processed trip, a stop that the unmatched-stop
\* warning names (its sequence number is not in foundStopSet after the walk) is
\* carried by no row of the trip.
C12_UnmatchedStopInNoRow ==
    TripProcessed
        => \A w \in log :
              w[1] = "unmatched" => \A i \in DOMAIN rows : rows[i].stop # w[3]

\* C13 (as claimed): the step that writes the row of link L writes a stop only
\* when some result entry of that stop is matched to L, and every point it
\* writes into ret is a point on L.
C13_RowStopMatchedToRowLink ==
    [][(pc = "emit")
          => LET linkID == outLinkIDList[linkPos] IN
             /\ (Last(rows').stop # Blank)
                   => \E e \in 0..(Len(resultTree) - 1) :
                         StopIDOf(e) = Last(rows').stop /\ LinkOf(e) = linkID
             /\ \A s \in DOMAIN ret' :
                   (s \notin DOMAIN ret \/ ret'[s] # ret[s]) => ret'[s].link = linkID
      ]_vars

\* C14: during the walk of a trip no step takes the cursor (resultIndex) back
\* or out of 0..len(resultTree); an iteration of the while loop reads the
\* result sequence at curResultIndex and at the cursor (lines 344-347), and
\* line 351 reads it at the new cursor when the first two operands let it:
\* each of these indices is within 0..len(resultTree) - 1; and the rows
\* written so far have no result entry as the representative of two of them
\* (the stops of the walk have IDs of their own, so the stop of a row names
\* its entry).
C14_CursorMonotoneInBounds ==
    [][(pc \in {"link", "while", "emit"})
          => /\ resultIndex' >= resultIndex
             /\ resultIndex' \in 0..Len(resultTree)
             /\ (pc = "while" /\ curResultIndex < Len(resultTree))
                   => /\ curResultIndex \in 0..(Len(resultTree) - 1)
                      /\ CandidateIndex(resultIndex, curResultIndex)
                             \in 0..(Len(resultTree) - 1)
                      /\ (matchCtr' # 0 /\ curResultIndex' < Len(resultTree))
                            => resultIndex' \in 0..(Len(resultTree) - 1)
             /\ \A i, j \in DOMAIN rows' :
                   (i # j /\ rows'[i].stop # Blank) => rows'[i].stop # rows'[j].stop
      ]_vars

\* C14 witness: a processed trip whose output list comes back to a link; both
\* rows of that link carry a stop, each the stop of an entry of its own, and
\* the cursor has reached the end of the result sequence.
C14_Witness ==
    /\ TripProcessed
    /\ resultIndex = Len(resultTree)
    /\ \E i, j \in DOMAIN rows :
          /\ i < j
          /\ rows[i].link = rows[j].link
          /\ rows[i].stop # Blank /\ rows[j].stop # Blank
          /\ rows[i].stop # rows[j].stop
          /\ \A e \in 0..(Len(resultTree) - 1) : Cardinality(RowsOfEntry(e)) <= 1

====
